---- MODULE Spec2Model ----
\* Turn-based physics and game-state simulation of src/GameScreen.tsx
\* (BallBlasterGame): sequenced ball launching, wall/brick collision,
\* turn end, brick descent, win / loss and level progression.
\*
\* Lengths are pixels, times are milliseconds.  The device window is
\* 640 x 960, which makes the scale factor of the source exactly 2 and keeps
\* every coordinate the source computes an integer.  Timestamps are kept
\* relative to the timestamp of the latest animation frame: the source only
\* ever uses differences of timestamps.
EXTENDS Integers, Naturals, Sequences, FiniteSets, TLC

\* ------------------------------------------------------------------ bounds
MaxReleases == 2          \* accepted releases explored in one behaviour
MaxLevel == 4             \* highest level index startNextLevel may request
ClockCap == 1350          \* turnClock stops counting at 9 launch delays

\* ------------------------------------------------------- program constants
DESIGN_WIDTH == 320
DESIGN_HEIGHT == 480
deviceWidth == 640
deviceHeight == 960

Min2(a, b) == IF a <= b THEN a ELSE b
Max2(a, b) == IF a >= b THEN a ELSE b
Abs(a) == IF a < 0 THEN 0 - a ELSE a

gameAreaHeight == Min2((deviceWidth * DESIGN_HEIGHT) \div DESIGN_WIDTH, deviceHeight)
gameAreaWidth ==
    IF (deviceWidth * DESIGN_HEIGHT) \div DESIGN_WIDTH > deviceHeight
    THEN (deviceHeight * DESIGN_WIDTH) \div DESIGN_HEIGHT
    ELSE deviceWidth
scale == Min2(gameAreaWidth \div DESIGN_WIDTH, gameAreaHeight \div DESIGN_HEIGHT)

BALL_RADIUS == 4 * scale
BALL_SPEED_PER_SEC == 600 * scale
LAUNCH_DELAY == 150
BRICK_MARGIN == 2 * scale
HEADER_HEIGHT == 60 * scale
BOTTOM_CONTROLS_HEIGHT == 60 * scale
LAUNCH_Y == deviceHeight - BOTTOM_CONTROLS_HEIGHT - (BALL_RADIUS * 2) - 100
INITIAL_LAUNCH_X == deviceWidth \div 2
BRICK_DROP_AMOUNT == 40 * scale
LOSS_LINE == deviceHeight - BOTTOM_CONTROLS_HEIGHT - ((deviceHeight * 3) \div 10)
InitialBallCount == 10
isGameActive == TRUE

\* ------------------------------------------------------------- level data
\* levels.json is read as a sequence of levels; a level is a sequence of
\* rows, a row a sequence of brick descriptors.  The level files explored:
\* two levels (level 1: two bricks side by side in the fifth row; level 2:
\* the same two bricks and one brick exactly on the loss line), one level
\* whose only row is empty, and no level at all.
BrickDef(h, p, g) == [hits |-> h, points |-> p, givesBall |-> g]

LevelFiles ==
    { << << << >>, << >>, << >>, << >>,
            << BrickDef(1, 10, TRUE), BrickDef(3, 20, FALSE) >> >>,
         << << >>, << >>, << >>, << >>,
            << BrickDef(1, 50, FALSE), BrickDef(3, 50, FALSE) >>,
            << >>, << >>, << >>,
            << BrickDef(1, 30, FALSE) >> >> >>,
      << << << >> >> >>,
      << >> }

\* --------------------------------------------------------------- inputs
\* Frame intervals (ms) of the frame driver; a behaviour runs at one of them.
\* 300 ms is a slow driver: two launch delays pass between two frames.
FrameIntervals == {100, 150, 300}

\* Aim directions: (cos, sin) of Math.atan2(dy, dx) in fifths, for touch
\* displacements (dx, dy) that are multiples of these vectors.
AimAngles == { <<0, -5>>, <<3, -4>>, <<5, 0>> }

VARIABLES
    levelsData,         \* the imported levels.json (levelsData.levels), never written
    frameInterval,      \* timestamp difference of two consecutive animation frames
    lastFrameSet,       \* TRUE iff lastFrameTime.current is non-zero
    balls,              \* useState<Ball[]>
    bricks,             \* useState<Brick[]>
    score,              \* useState(0)
    ballCount,          \* useState(10)
    gameState,          \* useState<GameState>: [level, gameStatus]
    isLaunching,        \* useRef<boolean>
    launchQueue,        \* useRef<Ball[]>
    lastLaunchTime,     \* useRef<number>, relative to the latest frame timestamp
    lastBallX,          \* useRef<number>
    touchActive,        \* useRef<boolean>
    launchAngle,        \* useSharedValue: <<cos, sin>> in fifths
    lastTurnHadLaunch,  \* useRef<boolean>
    gameLoop,           \* TRUE iff a requestAnimationFrame loop is scheduled
    effectPending,      \* the turn-end effect has to run for the latest render
    released,           \* history: a release was accepted since level start / last turn-end processing
    cancelled,          \* history of the latest recall: "none", "noop" (nothing released),
                        \* "pending" (an active turn recalled), "done" (its turn end processed)
    tickHits,           \* history: per brick, collisions resolved against it in the latest tick
    releases,           \* history: number of accepted releases
    sinceLaunch,        \* history: ms from the latest launch of the running sequence to the
                        \* latest frame, capped at LAUNCH_DELAY; -1 if there is none
    turnClock,          \* history: ms from the first launch of the running sequence to the
                        \* latest frame, capped at ClockCap; -1 if there is none
    \* the procedural level generator (src/unnamed/part_000), called twice
    genVariant,         \* which generateBricksForLevel: 1 (line 135) or 2 (line 916, level bonus)
    genLevel,           \* the level argument
    genSource,          \* the random source: Math.random() returns its elements in turn, cyclically
    genRun,             \* 0 no generation, 1 / 2 first / second call running, 3 both returned
    genDrawn,           \* number of Math.random() calls of the running call
    genRow,             \* row of the running call's loop
    genCol,             \* col of the running call's loop
    genBrickId,         \* let brickId
    genBricks,          \* const initialBricks of the running call
    genFirst,           \* history: what the first call returned
    genPick             \* history: arguments, draw and result of the latest selectBrickType

vars == << levelsData, frameInterval, lastFrameSet, balls, bricks, score, ballCount, gameState, isLaunching, launchQueue,
           lastLaunchTime, lastBallX, touchActive, launchAngle, lastTurnHadLaunch,
           gameLoop, effectPending, released, cancelled, tickHits, releases,
           sinceLaunch, turnClock,
           genVariant, genLevel, genSource, genRun, genDrawn, genRow, genCol,
           genBrickId, genBricks, genFirst, genPick >>

genVars == << genVariant, genLevel, genSource, genRun, genDrawn, genRow, genCol,
              genBrickId, genBricks, genFirst, genPick >>
gameVars == << levelsData, frameInterval, lastFrameSet, balls, bricks, score, ballCount,
               gameState, isLaunching, launchQueue, lastLaunchTime, lastBallX,
               touchActive, launchAngle, lastTurnHadLaunch, gameLoop, effectPending,
               released, cancelled, tickHits, releases, sinceLaunch, turnClock >>

\* ---------------------------------------------------------------- helpers
RECURSIVE MaxRowLength(_)
MaxRowLength(rows) ==
    IF rows = << >> THEN 0
    ELSE Max2(Len(Head(rows)), MaxRowLength(Tail(rows)))

brickWidthOf(rows) ==
    IF MaxRowLength(rows) = 0 THEN 0
    ELSE ((DESIGN_WIDTH - (MaxRowLength(rows) + 1) * 3) * scale) \div MaxRowLength(rows)

brickHeight == 25 * scale

\* The bricks of rows[rowIndex..], numbering them from brickId.
RECURSIVE BuildBricks(_, _, _, _)
BuildBricks(rows, rowIndex, colIndex, brickId) ==
    IF rowIndex > Len(rows) THEN << >>
    ELSE IF colIndex > Len(rows[rowIndex])
         THEN BuildBricks(rows, rowIndex + 1, 1, brickId)
         ELSE << [ id |-> brickId,
                   x |-> (colIndex - 1) * (brickWidthOf(rows) + BRICK_MARGIN) + BRICK_MARGIN,
                   y |-> (rowIndex - 1) * (brickHeight + BRICK_MARGIN) + HEADER_HEIGHT,
                   width |-> brickWidthOf(rows),
                   height |-> brickHeight,
                   visible |-> TRUE,
                   hits |-> rows[rowIndex][colIndex].hits,
                   points |-> rows[rowIndex][colIndex].points,
                   givesBall |-> rows[rowIndex][colIndex].givesBall ] >>
              \o BuildBricks(rows, rowIndex, colIndex + 1, brickId + 1)

\* A ball pool of the default size whatever the ball count.
initialBallsDefault(count) ==
    [ i \in 1..InitialBallCount |->
        [ id |-> i - 1, x |-> INITIAL_LAUNCH_X, y |-> LAUNCH_Y,
          dx |-> 0, dy |-> 0, launched |-> FALSE ] ]

initialBalls(count) ==
    [ i \in 1..count |->
        [ id |-> i - 1, x |-> INITIAL_LAUNCH_X, y |-> LAUNCH_Y,
          dx |-> 0, dy |-> 0, launched |-> FALSE ] ]

allParked(bs) == \A i \in 1..Len(bs) : ~bs[i].launched
visibleCount(brs) == Cardinality({ j \in 1..Len(brs) : brs[j].visible })
ZeroHits(brs) == [ j \in 1..Len(brs) |-> 0 ]
HasLevel(level) == level >= 1 /\ level <= Len(levelsData)

\* ------------------------------------------------------ collision resolver
\* ball.v * deltaSec with deltaSec = deltaTime / 1000.
Move(v, deltaTime) == (v * deltaTime) \div 1000

Overlaps(newX, newY, brick) ==
    /\ newX + BALL_RADIUS > brick.x
    /\ newX - BALL_RADIUS < brick.x + brick.width
    /\ newY + BALL_RADIUS > brick.y
    /\ newY - BALL_RADIUS < brick.y + brick.height

\* Index of the first visible brick at or after j that overlaps, 0 if none.
RECURSIVE firstOverlap(_, _, _, _)
\* The scan that keeps the last visible overlapping brick instead of
\* stopping at the first.
RECURSIVE lastOverlap(_, _, _, _)
lastOverlap(newX, newY, updatedBricks, j) ==
    IF j > Len(updatedBricks) THEN 0
    ELSE IF lastOverlap(newX, newY, updatedBricks, j + 1) # 0
    THEN lastOverlap(newX, newY, updatedBricks, j + 1)
    ELSE IF updatedBricks[j].visible /\ Overlaps(newX, newY, updatedBricks[j]) THEN j
    ELSE 0

firstOverlap(newX, newY, updatedBricks, j) ==
    IF j > Len(updatedBricks) THEN 0
    ELSE IF updatedBricks[j].visible /\ Overlaps(newX, newY, updatedBricks[j]) THEN j
    ELSE firstOverlap(newX, newY, updatedBricks, j + 1)

\* The side test in which a vertical depth wins a tie.
horizontalHitStrict(newX, newY, brick) ==
    LET fromLeft == Abs((newX + BALL_RADIUS) - brick.x)
        fromRight == Abs((newX - BALL_RADIUS) - (brick.x + brick.width))
        fromTop == Abs((newY + BALL_RADIUS) - brick.y)
        fromBottom == Abs((newY - BALL_RADIUS) - (brick.y + brick.height))
    IN  Min2(fromLeft, fromRight) < Min2(fromTop, fromBottom)

\* TRUE iff the minimal penetration depth is a horizontal one.
horizontalHit(newX, newY, brick) ==
    LET fromLeft == Abs((newX + BALL_RADIUS) - brick.x)
        fromRight == Abs((newX - BALL_RADIUS) - (brick.x + brick.width))
        fromTop == Abs((newY + BALL_RADIUS) - brick.y)
        fromBottom == Abs((newY - BALL_RADIUS) - (brick.y + brick.height))
        minOverlap == Min2(Min2(fromLeft, fromRight), Min2(fromTop, fromBottom))
    IN  minOverlap = fromLeft \/ minOverlap = fromRight

\* updateBallPosition whose top reflection halves the vertical speed.
updateBallPositionDamped(ball, deltaTime, updatedBricks) ==
    LET x0 == ball.x + Move(ball.dx, deltaTime)
        y0 == ball.y + Move(ball.dy, deltaTime)
        wall == x0 - BALL_RADIUS <= 0 \/ x0 + BALL_RADIUS >= deviceWidth
        dx1 == IF wall THEN 0 - ball.dx ELSE ball.dx
        x1 == IF wall THEN ball.x + Move(dx1, deltaTime) ELSE x0
        top == y0 - BALL_RADIUS <= HEADER_HEIGHT
        dy1 == IF top THEN (0 - ball.dy) \div 2 ELSE ball.dy
        y1 == IF top THEN ball.y + Move(dy1, deltaTime) ELSE y0
        j == firstOverlap(x1, y1, updatedBricks, 1)
    IN  IF y1 >= LAUNCH_Y
        THEN [ newX |-> x1, newY |-> LAUNCH_Y, dx |-> dx1, dy |-> dy1, brickIndex |-> 0 ]
        ELSE IF j = 0
        THEN [ newX |-> x1, newY |-> y1, dx |-> dx1, dy |-> dy1, brickIndex |-> 0 ]
        ELSE IF horizontalHit(x1, y1, updatedBricks[j])
        THEN [ newX |-> ball.x + Move(0 - dx1, deltaTime), newY |-> y1,
               dx |-> 0 - dx1, dy |-> dy1, brickIndex |-> j ]
        ELSE [ newX |-> x1, newY |-> ball.y + Move(0 - dy1, deltaTime),
               dx |-> dx1, dy |-> 0 - dy1, brickIndex |-> j ]

\* updateBallPosition whose bottom check reflects the ball off the launch
\* line instead of returning it.
updateBallPositionBounces(ball, deltaTime, updatedBricks) ==
    LET x0 == ball.x + Move(ball.dx, deltaTime)
        y0 == ball.y + Move(ball.dy, deltaTime)
        wall == x0 - BALL_RADIUS <= 0 \/ x0 + BALL_RADIUS >= deviceWidth
        dx1 == IF wall THEN 0 - ball.dx ELSE ball.dx
        x1 == IF wall THEN ball.x + Move(dx1, deltaTime) ELSE x0
        top == y0 - BALL_RADIUS <= HEADER_HEIGHT \/ y0 >= LAUNCH_Y
        dy1 == IF top THEN 0 - ball.dy ELSE ball.dy
        y1 == IF top THEN ball.y + Move(dy1, deltaTime) ELSE y0
    IN  [ newX |-> x1, newY |-> y1, dx |-> dx1, dy |-> dy1, brickIndex |-> 0 ]

\* Result: the new position, the ball's (mutated) velocity, and the index of
\* the brick collided with (0 = none).
updateBallPosition(ball, deltaTime, updatedBricks) ==
    LET x0 == ball.x + Move(ball.dx, deltaTime)
        y0 == ball.y + Move(ball.dy, deltaTime)
        wall == x0 - BALL_RADIUS <= 0 \/ x0 + BALL_RADIUS >= deviceWidth
        dx1 == IF wall THEN 0 - ball.dx ELSE ball.dx
        x1 == IF wall THEN ball.x + Move(dx1, deltaTime) ELSE x0
        top == y0 - BALL_RADIUS <= HEADER_HEIGHT
        dy1 == IF top THEN 0 - ball.dy ELSE ball.dy
        y1 == IF top THEN ball.y + Move(dy1, deltaTime) ELSE y0
        j == firstOverlap(x1, y1, updatedBricks, 1)
    IN  IF y1 >= LAUNCH_Y
        THEN [ newX |-> x1, newY |-> LAUNCH_Y, dx |-> dx1, dy |-> dy1, brickIndex |-> 0 ]
        ELSE IF j = 0
        THEN [ newX |-> x1, newY |-> y1, dx |-> dx1, dy |-> dy1, brickIndex |-> 0 ]
        ELSE IF horizontalHit(x1, y1, updatedBricks[j])
        THEN [ newX |-> ball.x + Move(0 - dx1, deltaTime), newY |-> y1,
               dx |-> 0 - dx1, dy |-> dy1, brickIndex |-> j ]
        ELSE [ newX |-> x1, newY |-> ball.y + Move(0 - dy1, deltaTime),
               dx |-> dx1, dy |-> 0 - dy1, brickIndex |-> j ]

\* A hit that is applied twice.
hitBrickTwice(brick) ==
    [ brick EXCEPT !.hits = brick.hits - 2,
                   !.visible = IF brick.hits - 2 <= 0 THEN FALSE ELSE brick.visible ]

\* A hit that hides the brick only below zero (hits < 0 instead of hits <= 0).
hitBrickStaysVisible(brick) ==
    [ brick EXCEPT !.hits = brick.hits - 1,
                   !.visible = IF brick.hits - 1 < 0 THEN FALSE ELSE brick.visible ]

\* brick.hits--; if (brick.hits <= 0) brick.visible = false
hitBrick(brick) ==
    [ brick EXCEPT !.hits = brick.hits - 1,
                   !.visible = IF brick.hits - 1 <= 0 THEN FALSE ELSE brick.visible ]

\* The for loop of updateBallsAndBricks from ball i on.  st carries newBalls,
\* updatedBricks, lastBallX, allBallsReturned, the score and ball-count
\* increments queued so far, and the collisions resolved per brick.
RECURSIVE stepBalls(_, _, _)
stepBalls(i, deltaTime, st) ==
    IF i > Len(st.balls) THEN st
    ELSE IF ~st.balls[i].launched THEN stepBalls(i + 1, deltaTime, st)
    ELSE
      LET ball == st.balls[i]
          r == updateBallPosition(ball, deltaTime, st.bricks)
          moved == [ ball EXCEPT !.dx = r.dx, !.dy = r.dy ]
      IN  IF r.newY >= LAUNCH_Y
          THEN stepBalls(i + 1, deltaTime,
                 [ st EXCEPT !.allBallsReturned = FALSE,
                             !.lastBallX = r.newX,
                             !.balls[i] = [ moved EXCEPT !.x = r.newX, !.y = LAUNCH_Y,
                                                         !.launched = FALSE ] ])
          ELSE IF r.brickIndex # 0
          THEN LET brick == hitBrick(st.bricks[r.brickIndex])
                   destroyed == brick.hits <= 0
               IN  stepBalls(i + 1, deltaTime,
                     [ st EXCEPT !.allBallsReturned = FALSE,
                                 !.bricks[r.brickIndex] = brick,
                                 !.score = IF destroyed THEN @ + brick.points ELSE @,
                                 !.ballCount = IF destroyed /\ brick.givesBall THEN @ + 1 ELSE @,
                                 !.hitCount[r.brickIndex] = @ + 1,
                                 !.balls[i] = [ moved EXCEPT !.x = r.newX, !.y = r.newY ] ])
          ELSE stepBalls(i + 1, deltaTime,
                 [ st EXCEPT !.allBallsReturned = FALSE,
                             !.balls[i] = [ moved EXCEPT !.x = r.newX, !.y = r.newY ] ])

\* endTurn that moves the balls to the initial launch point.
anchorAllAtStart(bs, anchor) ==
    [ i \in 1..Len(bs) |-> [ bs[i] EXCEPT !.x = INITIAL_LAUNCH_X ] ]

\* endTurn without the forEach: the balls stay where they came down.
anchorNone(bs, anchor) == bs

\* endTurn's forEach: every ball's x becomes the anchor.
anchorAll(bs, anchor) == [ i \in 1..Len(bs) |-> [ bs[i] EXCEPT !.x = anchor ] ]

\* Position of the ball with the given id in bs, 0 if absent (findIndex).
RECURSIVE findIndex(_, _, _)
findIndex(bs, id, i) ==
    IF i > Len(bs) THEN 0
    ELSE IF bs[i].id = id THEN i
    ELSE findIndex(bs, id, i + 1)

\* initializeGame(level) whose missing-level fallback keeps the game playing.
initializeGameMissingPlays(level) ==
    /\ isLaunching' = FALSE
    /\ lastTurnHadLaunch' = FALSE
    /\ launchQueue' = << >>
    /\ lastFrameSet' = FALSE
    /\ lastBallX' = INITIAL_LAUNCH_X
    /\ IF ~HasLevel(level)
       THEN /\ gameState' = [ level |-> level, gameStatus |-> "playing" ]
            /\ gameLoop' = FALSE
            /\ UNCHANGED << balls, bricks >>
       ELSE /\ bricks' = BuildBricks(levelsData[level], 1, 1, 0)
            /\ balls' = initialBalls(ballCount)
            /\ gameState' = [ level |-> level, gameStatus |-> "playing" ]
            /\ gameLoop' = TRUE
    /\ effectPending' = TRUE
    /\ released' = FALSE
    /\ cancelled' = "none"
    /\ tickHits' = ZeroHits(bricks')
    /\ sinceLaunch' = 0 - 1
    /\ turnClock' = 0 - 1
    /\ UNCHANGED << genVars, levelsData, frameInterval, score, ballCount, lastLaunchTime,
                    touchActive, launchAngle, releases >>

\* ------------------------------------------------------------- operations
\* initializeGame(level); the refs it resets, the ball pool, the level lookup
\* with its missing-level fallback, and the brick construction.
initializeGame(level) ==
    /\ isLaunching' = FALSE
    /\ lastTurnHadLaunch' = FALSE
    /\ launchQueue' = << >>
    /\ lastFrameSet' = FALSE
    /\ lastBallX' = INITIAL_LAUNCH_X
    /\ IF ~HasLevel(level)
       THEN /\ gameState' = [ level |-> level, gameStatus |-> "won" ]
            /\ gameLoop' = FALSE
            /\ UNCHANGED << balls, bricks >>
       ELSE /\ bricks' = BuildBricks(levelsData[level], 1, 1, 0)
            /\ balls' = initialBalls(ballCount)
            /\ gameState' = [ level |-> level, gameStatus |-> "playing" ]
            /\ gameLoop' = TRUE
    /\ effectPending' = TRUE
    /\ released' = FALSE
    /\ cancelled' = "none"
    /\ tickHits' = ZeroHits(bricks')
    /\ sinceLaunch' = 0 - 1
    /\ turnClock' = 0 - 1
    /\ UNCHANGED << genVars, levelsData, frameInterval, score, ballCount, lastLaunchTime,
                    touchActive, launchAngle, releases >>

\* The state after mounting: the useState / useRef initial values followed by
\* the mount effect's initializeGame(1).
Mount ==
    /\ levelsData \in LevelFiles
    /\ frameInterval \in FrameIntervals
    /\ lastFrameSet = FALSE
    /\ score = 0
    /\ ballCount = InitialBallCount
    /\ isLaunching = FALSE
    /\ lastTurnHadLaunch = FALSE
    /\ launchQueue = << >>
    /\ lastBallX = INITIAL_LAUNCH_X
    /\ lastLaunchTime = 0 - LAUNCH_DELAY
    /\ touchActive = FALSE
    /\ launchAngle = <<5, 0>>
    /\ IF HasLevel(1)
       THEN /\ bricks = BuildBricks(levelsData[1], 1, 1, 0)
            /\ balls = initialBalls(InitialBallCount)
            /\ gameState = [ level |-> 1, gameStatus |-> "playing" ]
            /\ gameLoop = TRUE
       ELSE /\ bricks = << >>
            /\ balls = << >>
            /\ gameState = [ level |-> 1, gameStatus |-> "won" ]
            /\ gameLoop = FALSE
    /\ effectPending = TRUE
    /\ released = FALSE
    /\ cancelled = "none"
    /\ tickHits = ZeroHits(bricks)
    /\ releases = 0
    /\ sinceLaunch = 0 - 1
    /\ turnClock = 0 - 1

\* The data-driven game never calls the generator.
GenOff ==
    /\ genVariant = 1 /\ genLevel = 1 /\ genSource = << >>
    /\ genRun = 0 /\ genDrawn = 0 /\ genRow = 0 /\ genCol = 0
    /\ genBrickId = 0 /\ genBricks = << >> /\ genFirst = << >>
    /\ genPick = << >>

Init == Mount /\ GenOff

\* handleQueuedLaunches that leaves the launched ball at the head of the queue.
handleQueuedLaunchesKeepsHead(age) ==
    IF isLaunching /\ Len(launchQueue) > 0 /\ 0 - age >= LAUNCH_DELAY
    THEN LET ballToLaunch == Head(launchQueue)
             idx == findIndex(balls, ballToLaunch.id, 1)
         IN  [ balls |-> IF idx # 0
                         THEN [ balls EXCEPT ![idx] = [ ballToLaunch EXCEPT !.launched = TRUE ] ]
                         ELSE balls,
               launchQueue |-> launchQueue,
               lastLaunchTime |-> 0 ]
    ELSE [ balls |-> balls, launchQueue |-> launchQueue, lastLaunchTime |-> age ]

\* handleQueuedLaunches without the LAUNCH_DELAY gate.
handleQueuedLaunchesNoGate(age) ==
    IF isLaunching /\ Len(launchQueue) > 0
    THEN LET ballToLaunch == Head(launchQueue)
             idx == findIndex(balls, ballToLaunch.id, 1)
         IN  [ balls |-> IF idx # 0
                         THEN [ balls EXCEPT ![idx] = [ ballToLaunch EXCEPT !.launched = TRUE ] ]
                         ELSE balls,
               launchQueue |-> Tail(launchQueue),
               lastLaunchTime |-> 0 ]
    ELSE [ balls |-> balls, launchQueue |-> launchQueue, lastLaunchTime |-> age ]

\* handleQueuedLaunches(timestamp); age is lastLaunchTime relative to the
\* timestamp of this frame.
handleQueuedLaunches(age) ==
    IF isLaunching /\ Len(launchQueue) > 0 /\ 0 - age >= LAUNCH_DELAY
    THEN LET ballToLaunch == Head(launchQueue)
             idx == findIndex(balls, ballToLaunch.id, 1)
         IN  [ balls |-> IF idx # 0
                         THEN [ balls EXCEPT ![idx] = [ ballToLaunch EXCEPT !.launched = TRUE ] ]
                         ELSE balls,
               launchQueue |-> Tail(launchQueue),
               lastLaunchTime |-> 0 ]
    ELSE [ balls |-> balls, launchQueue |-> launchQueue, lastLaunchTime |-> age ]

\* updateBallsAndBricks that drops the destroyed bricks from the collection.
updateBallsAndBricksPruning(bs, deltaTime) ==
    LET r == stepBalls(1, deltaTime,
                 [ balls |-> bs, bricks |-> bricks, lastBallX |-> lastBallX,
                   allBallsReturned |-> TRUE, score |-> score, ballCount |-> ballCount,
                   hitCount |-> ZeroHits(bricks) ])
        kept == SelectSeq(r.bricks, LAMBDA brick : brick.visible)
    IN  [ r EXCEPT !.bricks = kept, !.hitCount = ZeroHits(kept) ]

\* updateBallsAndBricks(deltaTime) applied to the balls bs: the result of the
\* loop over the balls, before the endTurn test.
updateBallsAndBricks(bs, deltaTime) ==
    stepBalls(1, deltaTime,
        [ balls |-> bs, bricks |-> bricks, lastBallX |-> lastBallX,
          allBallsReturned |-> TRUE, score |-> score, ballCount |-> ballCount,
          hitCount |-> ZeroHits(bricks) ])

\* endTurn is never applied.
endTurnDueNever(st) == FALSE

\* endTurn is due after the loop.
endTurnDue(st) == st.allBallsReturned /\ isLaunching

\* A history clock after a frame that came elapsed ms after the previous one:
\* it starts at 0 with a launch when it is not running (or with every launch,
\* if restart), and otherwise counts the elapsed time up to cap.
ranClock(clock, elapsed, cap, launchedNow, restart) ==
    IF launchedNow /\ (restart \/ clock < 0) THEN 0
    ELSE IF clock < 0 THEN clock
    ELSE Min2(clock + elapsed, cap)

\* One animation frame: updateGame(timestamp), elapsed ms after the previous
\* frame.  deltaTime is 0 on the first frame after initializeGame.
updateGame(elapsed) ==
    /\ gameLoop
    /\ ~effectPending
    /\ lastFrameSet' = TRUE
    /\ LET deltaTime == IF lastFrameSet THEN elapsed ELSE 0
           q == handleQueuedLaunches(Max2(lastLaunchTime - elapsed, 0 - LAUNCH_DELAY))
           st == updateBallsAndBricks(q.balls, deltaTime)
       IN  /\ lastLaunchTime' = q.lastLaunchTime
           /\ bricks' = st.bricks
           /\ score' = st.score
           /\ ballCount' = st.ballCount
           /\ lastBallX' = st.lastBallX
           /\ tickHits' = st.hitCount
           /\ IF endTurnDue(st)
              THEN /\ isLaunching' = FALSE
                   /\ launchQueue' = << >>
                   /\ balls' = anchorAll(st.balls, st.lastBallX)
                   /\ sinceLaunch' = 0 - 1
                   /\ turnClock' = 0 - 1
              ELSE /\ isLaunching' = isLaunching
                   /\ launchQueue' = q.launchQueue
                   /\ balls' = st.balls
                   /\ sinceLaunch' = ranClock(sinceLaunch, elapsed, LAUNCH_DELAY,
                                              Len(q.launchQueue) < Len(launchQueue), TRUE)
                   /\ turnClock' = ranClock(turnClock, elapsed, ClockCap,
                                            Len(q.launchQueue) < Len(launchQueue), FALSE)
    /\ effectPending' = TRUE
    /\ UNCHANGED << genVars, levelsData, frameInterval, gameState, touchActive, launchAngle,
                    lastTurnHadLaunch, gameLoop, released, cancelled, releases >>

Tick == updateGame(frameInterval)

\* recallBalls() that parks the balls at the initial launch point and moves
\* the anchor there.
recallResetsAnchor ==
    /\ balls' = [ i \in 1..Len(balls) |->
                    [ balls[i] EXCEPT !.x = INITIAL_LAUNCH_X, !.y = LAUNCH_Y,
                                      !.dx = 0, !.dy = 0, !.launched = FALSE ] ]
    /\ lastBallX' = INITIAL_LAUNCH_X
    /\ isLaunching' = FALSE
    /\ launchQueue' = << >>
    /\ effectPending' = TRUE
    /\ cancelled' = IF released /\ (isLaunching \/ ~allParked(balls)) THEN "pending"
                    ELSE IF ~released THEN "noop"
                    ELSE cancelled
    /\ tickHits' = ZeroHits(bricks)
    /\ sinceLaunch' = 0 - 1
    /\ turnClock' = 0 - 1
    /\ UNCHANGED << genVars, levelsData, frameInterval, lastFrameSet, bricks, score, ballCount,
                    gameState, lastLaunchTime, touchActive, launchAngle,
                    lastTurnHadLaunch, gameLoop, released, releases >>

\* recallBalls() that parks the balls but leaves isLaunching and the queue.
recallParksOnly ==
    /\ balls' = [ i \in 1..Len(balls) |->
                    [ balls[i] EXCEPT !.x = lastBallX, !.y = LAUNCH_Y,
                                      !.dx = 0, !.dy = 0, !.launched = FALSE ] ]
    /\ UNCHANGED << isLaunching, launchQueue >>
    /\ effectPending' = TRUE
    /\ cancelled' = IF released /\ (isLaunching \/ ~allParked(balls)) THEN "pending"
                    ELSE IF ~released THEN "noop"
                    ELSE cancelled
    /\ tickHits' = ZeroHits(bricks)
    /\ sinceLaunch' = 0 - 1
    /\ turnClock' = 0 - 1
    /\ UNCHANGED << genVars, levelsData, frameInterval, lastFrameSet, bricks, score, ballCount,
                    gameState, lastLaunchTime, lastBallX, touchActive, launchAngle,
                    lastTurnHadLaunch, gameLoop, released, releases >>

\* recallBalls() that forgets to clear isLaunching.
recallKeepsLaunching ==
    /\ balls' = [ i \in 1..Len(balls) |->
                    [ balls[i] EXCEPT !.x = lastBallX, !.y = LAUNCH_Y,
                                      !.dx = 0, !.dy = 0, !.launched = FALSE ] ]
    /\ isLaunching' = isLaunching
    /\ launchQueue' = << >>
    /\ effectPending' = TRUE
    /\ cancelled' = IF released /\ (isLaunching \/ ~allParked(balls)) THEN "pending"
                    ELSE IF ~released THEN "noop"
                    ELSE cancelled
    /\ tickHits' = ZeroHits(bricks)
    /\ sinceLaunch' = 0 - 1
    /\ turnClock' = 0 - 1
    /\ UNCHANGED << genVars, levelsData, frameInterval, lastFrameSet, bricks, score, ballCount,
                    gameState, lastLaunchTime, lastBallX, touchActive, launchAngle,
                    lastTurnHadLaunch, gameLoop, released, releases >>

\* recallBalls()
recallBalls ==
    /\ balls' = [ i \in 1..Len(balls) |->
                    [ balls[i] EXCEPT !.x = lastBallX, !.y = LAUNCH_Y,
                                      !.dx = 0, !.dy = 0, !.launched = FALSE ] ]
    /\ isLaunching' = FALSE
    /\ launchQueue' = << >>
    /\ effectPending' = TRUE
    /\ cancelled' = IF released /\ (isLaunching \/ ~allParked(balls)) THEN "pending"
                    ELSE IF ~released THEN "noop"
                    ELSE cancelled
    /\ tickHits' = ZeroHits(bricks)
    /\ sinceLaunch' = 0 - 1
    /\ turnClock' = 0 - 1
    /\ UNCHANGED << genVars, levelsData, frameInterval, lastFrameSet, bricks, score, ballCount,
                    gameState, lastLaunchTime, lastBallX, touchActive, launchAngle,
                    lastTurnHadLaunch, gameLoop, released, releases >>

\* onGestureEvent(event) for a touch in direction angle from the anchor.
onGestureEvent(angle) ==
    /\ isGameActive
    /\ launchAngle' = angle
    /\ touchActive' = TRUE
    /\ tickHits' = ZeroHits(bricks)
    /\ UNCHANGED << genVars, levelsData, frameInterval, lastFrameSet, balls, bricks, score,
                    ballCount, gameState, isLaunching, launchQueue, lastLaunchTime,
                    lastBallX, lastTurnHadLaunch, gameLoop, effectPending,
                    released, cancelled, releases, sinceLaunch, turnClock >>

Aim == \E angle \in AimAngles : onGestureEvent(angle)

\* The queue built in descending order of the balls.
queueOfReversed(bs, dx, dy) ==
    LET unlaunched == SelectSeq(bs, LAMBDA b : ~b.launched)
    IN  [ i \in 1..Len(unlaunched) |->
            [ unlaunched[Len(unlaunched) + 1 - i] EXCEPT !.dx = dx, !.dy = dy ] ]

\* The queue onGestureEnd builds: every unlaunched ball with the shared velocity.
queueOf(bs, dx, dy) ==
    LET unlaunched == SelectSeq(bs, LAMBDA b : ~b.launched)
    IN  [ i \in 1..Len(unlaunched) |-> [ unlaunched[i] EXCEPT !.dx = dx, !.dy = dy ] ]

\* The guards without the isLaunching test.
releaseAcceptedWhileLaunching ==
    /\ isGameActive /\ touchActive
    /\ allParked(balls)
    /\ Len(queueOf(balls, 0, 0)) > 0

\* The release is accepted: onGestureEnd passes all of its guards.
releaseAccepted ==
    /\ isGameActive /\ touchActive
    /\ allParked(balls)
    /\ ~isLaunching
    /\ Len(queueOf(balls, 0, 0)) > 0

\* onGestureEnd() that stamps the release itself as the latest launch.
onGestureEndStampsNow ==
    /\ IF ~isGameActive \/ ~touchActive \/ ~allParked(balls)
       THEN UNCHANGED << touchActive, launchQueue, isLaunching, lastLaunchTime,
                         lastTurnHadLaunch, released, cancelled, releases,
                         sinceLaunch, turnClock >>
       ELSE /\ touchActive' = FALSE
            /\ IF releaseAccepted
               THEN /\ releases < MaxReleases
                    /\ lastTurnHadLaunch' = TRUE
                    /\ launchQueue' = queueOf(balls,
                                          (launchAngle[1] * BALL_SPEED_PER_SEC) \div 5,
                                          (launchAngle[2] * BALL_SPEED_PER_SEC) \div 5)
                    /\ isLaunching' = TRUE
                    /\ lastLaunchTime' = 0
                    /\ released' = TRUE
                    /\ cancelled' = "none"
                    /\ releases' = releases + 1
                    /\ sinceLaunch' = 0 - 1
                    /\ turnClock' = 0 - 1
               ELSE UNCHANGED << launchQueue, isLaunching, lastLaunchTime,
                                 lastTurnHadLaunch, released, cancelled, releases,
                                 sinceLaunch, turnClock >>
    /\ tickHits' = ZeroHits(bricks)
    /\ UNCHANGED << genVars, levelsData, frameInterval, lastFrameSet, balls, bricks, score,
                    ballCount, gameState, lastBallX, launchAngle, gameLoop, effectPending >>

\* onGestureEnd()
onGestureEnd ==
    /\ IF ~isGameActive \/ ~touchActive \/ ~allParked(balls)
       THEN UNCHANGED << touchActive, launchQueue, isLaunching, lastLaunchTime,
                         lastTurnHadLaunch, released, cancelled, releases,
                         sinceLaunch, turnClock >>
       ELSE /\ touchActive' = FALSE
            /\ IF releaseAccepted
               THEN /\ releases < MaxReleases
                    /\ lastTurnHadLaunch' = TRUE
                    /\ launchQueue' = queueOf(balls,
                                          (launchAngle[1] * BALL_SPEED_PER_SEC) \div 5,
                                          (launchAngle[2] * BALL_SPEED_PER_SEC) \div 5)
                    /\ isLaunching' = TRUE
                    /\ lastLaunchTime' = 0 - LAUNCH_DELAY
                    /\ released' = TRUE
                    /\ cancelled' = "none"
                    /\ releases' = releases + 1
                    /\ sinceLaunch' = 0 - 1
                    /\ turnClock' = 0 - 1
               ELSE UNCHANGED << launchQueue, isLaunching, lastLaunchTime,
                                 lastTurnHadLaunch, released, cancelled, releases,
                                 sinceLaunch, turnClock >>
    /\ tickHits' = ZeroHits(bricks)
    /\ UNCHANGED << genVars, levelsData, frameInterval, lastFrameSet, balls, bricks, score,
                    ballCount, gameState, lastBallX, launchAngle, gameLoop, effectPending >>

\* A descent that moves the visible bricks only.
descendVisible(brs) ==
    [ j \in 1..Len(brs) |->
        IF brs[j].visible THEN [ brs[j] EXCEPT !.y = @ + BRICK_DROP_AMOUNT ] ELSE brs[j] ]

\* Every brick moved down by BRICK_DROP_AMOUNT.
descend(brs) == [ j \in 1..Len(brs) |-> [ brs[j] EXCEPT !.y = @ + BRICK_DROP_AMOUNT ] ]

\* The loss test applied to the positions before the descent.
hasCrossedBeforeDescent(brs) ==
    \E j \in 1..Len(brs) : brs[j].visible /\ brs[j].y - BRICK_DROP_AMOUNT > LOSS_LINE

\* The loss test without the visibility filter.
hasCrossedIgnoringVisible(brs) == \E j \in 1..Len(brs) : brs[j].y > LOSS_LINE

hasCrossedLossLine(brs) == \E j \in 1..Len(brs) : brs[j].visible /\ brs[j].y > LOSS_LINE

\* The win test without bricks.length > 0.
winDueNoLength(brs) == visibleCount(brs) = 0

\* The win test on the collection instead of the visible bricks.
winDueEmptyCollection(brs) == Len(brs) = 0

\* The win test of the effect: bricks.length > 0 && visibleBricks.length === 0.
winDue(brs) == Len(brs) > 0 /\ visibleCount(brs) = 0

\* The guard without the lastTurnHadLaunch test.
turnEndDueNoFlag ==
    /\ gameState.gameStatus = "playing"
    /\ allParked(balls) /\ ~isLaunching

\* The guard without the tests that every ball is parked and no launch runs.
turnEndDueNoParked ==
    /\ gameState.gameStatus = "playing"
    /\ lastTurnHadLaunch

\* The guard of turn-end processing in the effect.
turnEndDue ==
    /\ gameState.gameStatus = "playing"
    /\ allParked(balls) /\ ~isLaunching /\ lastTurnHadLaunch

\* The effect on [gameStatus, isLaunching, balls, bricks]: win check, descent,
\* loss check.  It is pending again when it changed bricks or gameState.
turnEndEffect ==
    /\ effectPending
    /\ IF turnEndDue
       THEN /\ lastTurnHadLaunch' = FALSE
            /\ released' = FALSE
            /\ cancelled' = IF cancelled = "pending" THEN "done" ELSE cancelled
            /\ IF winDue(bricks)
               THEN /\ gameState' = [ gameState EXCEPT !.gameStatus = "won" ]
                    /\ bricks' = bricks
                    /\ effectPending' = TRUE
               ELSE IF visibleCount(bricks) > 0
               THEN /\ bricks' = descend(bricks)
                    /\ gameState' = IF hasCrossedLossLine(descend(bricks))
                                    THEN [ gameState EXCEPT !.gameStatus = "lost" ]
                                    ELSE gameState
                    /\ effectPending' = TRUE
               ELSE /\ UNCHANGED << bricks, gameState >>
                    /\ effectPending' = FALSE
       ELSE /\ effectPending' = FALSE
            /\ UNCHANGED << bricks, gameState, lastTurnHadLaunch, released, cancelled >>
    /\ tickHits' = ZeroHits(bricks)
    /\ UNCHANGED << genVars, levelsData, frameInterval, lastFrameSet, balls, score, ballCount,
                    isLaunching, launchQueue, lastLaunchTime, lastBallX, touchActive,
                    launchAngle, gameLoop, releases, sinceLaunch, turnClock >>

\* startNextLevel(), offered by the level-complete modal.
startNextLevel ==
    /\ gameState.gameStatus = "won"
    /\ gameState.level < MaxLevel
    /\ initializeGame(gameState.level + 1)

\* restartGame(), offered by the game-over modal.
restartGame ==
    /\ gameState.gameStatus = "lost"
    /\ initializeGame(1)

\* ------------------------------------------- procedural level generator
\* generateBricksForLevel / selectBrickType of src/unnamed/part_000, in its
\* two versions: 1 (lines 135-174: fixed type table, special flag) and 2
\* (lines 916-962: hit counts and probabilities scaled by a level bonus).
\* Probabilities and Math.random() draws are kept in thousandths, brick x and
\* width in eighths of a pixel (BRICK_WIDTH = (width - 27) / 8).  The draws
\* used lie away from every cumulative threshold, where the sums of the
\* doubles and the sums of the thousandths compare alike.
SourceLen == 3            \* period of the random source

GenLevels == {0, 1, 4}
Draws == {50, 700, 880, 999}

INITIAL_BRICK_ROWS == 4
BRICK_COLS == 8
GEN_BRICK_MARGIN == 3
GEN_HEADER_HEIGHT == 80
GEN_BRICK_HEIGHT == 25
GEN_BRICK_WIDTH8 == deviceWidth - (BRICK_COLS + 1) * GEN_BRICK_MARGIN

BrickType(c, p, h, pr) == [ color |-> c, points |-> p, hits |-> h, probability |-> pr ]

BRICK_TYPES(variant) ==
    IF variant = 1
    THEN << BrickType("#4CAF50", 1, 1, 600), BrickType("#2196F3", 2, 2, 250),
            BrickType("#FFC107", 3, 1, 100), BrickType("#9C27B0", 5, 3, 50) >>
    ELSE << BrickType("#4CAF50", 1, 1, 300), BrickType("#2196F3", 2, 2, 250),
            BrickType("#9C27B0", 3, 3, 200), BrickType("#FF5722", 4, 4, 150),
            BrickType("#F44336", 5, 5, 100) >>

getBrickRowsForLevel(level) == INITIAL_BRICK_ROWS + (level \div 2)

gapProbability(level) == Max2(100, 300 - level * 50)

\* Math.floor((level - 1) / 3)
levelBonus(level) == (level - 1) \div 3

adjustedTypes(level) ==
    [ k \in 1..Len(BRICK_TYPES(2)) |->
        [ BRICK_TYPES(2)[k] EXCEPT !.hits = Min2(@ + levelBonus(level), 9),
                                   !.probability = (@ * (10 + levelBonus(level))) \div 10 ] ]

\* The table the generator samples from.
typesOf(variant, level) == IF variant = 1 THEN BRICK_TYPES(1) ELSE adjustedTypes(level)

\* The for loop of selectBrickType from entry k on: the index of the entry
\* returned from inside the loop, 0 if the loop runs out.
RECURSIVE walkTypes(_, _, _, _)
walkTypes(types, rand, k, cumProb) ==
    IF k > Len(types) THEN 0
    ELSE IF rand < cumProb + types[k].probability THEN k
    ELSE walkTypes(types, rand, k + 1, cumProb + types[k].probability)

\* selectBrickType(types) with Math.random() = rand; after the loop it
\* returns types[0], the first entry.
selectBrickType(types, rand) ==
    IF walkTypes(types, rand, 1, 0) = 0 THEN types[1]
    ELSE types[walkTypes(types, rand, 1, 0)]

\* The n-th Math.random() of a call (n from 0).
random(n) == genSource[(n % Len(genSource)) + 1]

\* A module-level brick counter that a call goes on counting from.
entryBrickIdKept(previous) == previous

\* let brickId = 0 at the entry of a call, whatever an earlier call counted to.
entryBrickId(previous) == 0

\* One iteration of the inner loop of generateBricksForLevel: cell (row, col).
generateCell ==
    /\ genRun \in {1, 2}
    /\ genRow < getBrickRowsForLevel(genLevel)
    /\ IF random(genDrawn) < gapProbability(genLevel)
       THEN /\ genDrawn' = genDrawn + 1
            /\ UNCHANGED << genBrickId, genBricks, genPick >>
       ELSE LET types == typesOf(genVariant, genLevel)
                rand == random(genDrawn + 1)
                selectedType == selectBrickType(types, rand)
            IN  /\ genDrawn' = genDrawn + 2
                /\ genPick' = << types, rand, selectedType >>
                /\ genBrickId' = genBrickId + 1
                /\ genBricks' = Append(genBricks,
                       [ id |-> genBrickId,
                         x |-> genCol * (GEN_BRICK_WIDTH8 + 8 * GEN_BRICK_MARGIN)
                                  + 8 * GEN_BRICK_MARGIN,
                         y |-> genRow * (GEN_BRICK_HEIGHT + GEN_BRICK_MARGIN) + GEN_HEADER_HEIGHT,
                         width |-> GEN_BRICK_WIDTH8,
                         height |-> GEN_BRICK_HEIGHT,
                         visible |-> TRUE,
                         special |-> genVariant = 1 /\ selectedType = BRICK_TYPES(1)[3],
                         hits |-> selectedType.hits,
                         color |-> selectedType.color,
                         points |-> selectedType.points ])
    /\ IF genCol + 1 < BRICK_COLS
       THEN genCol' = genCol + 1 /\ genRow' = genRow
       ELSE genCol' = 0 /\ genRow' = genRow + 1
    /\ UNCHANGED << gameVars, genVariant, genLevel, genSource, genRun, genFirst >>

\* return initialBricks; after the first call the generator is called again
\* with the same level and a random source that repeats its draws.
generateReturn ==
    /\ genRun \in {1, 2}
    /\ genRow >= getBrickRowsForLevel(genLevel)
    /\ IF genRun = 1
       THEN /\ genFirst' = genBricks
            /\ genRun' = 2
            /\ genDrawn' = 0 /\ genRow' = 0 /\ genCol' = 0
            /\ genBrickId' = entryBrickId(genBrickId)
            /\ genBricks' = << >>
       ELSE /\ genRun' = 3
            /\ UNCHANGED << genFirst, genDrawn, genRow, genCol, genBrickId, genBricks >>
    /\ UNCHANGED << gameVars, genVariant, genLevel, genSource, genPick >>

\* The generator called for a level with a random source, beside a game
\* mounted without level data.
GenInit ==
    /\ Mount /\ levelsData = << >> /\ frameInterval = 100
    /\ genVariant \in {1, 2}
    /\ genLevel \in GenLevels
    /\ genSource \in [ 1..SourceLen -> Draws ]
    /\ genRun = 1 /\ genDrawn = 0 /\ genRow = 0 /\ genCol = 0
    /\ genBrickId = entryBrickId(0) /\ genBricks = << >> /\ genFirst = << >>
    /\ genPick = << >>

GenNext == generateCell \/ generateReturn

SpecGen == GenInit /\ [][GenNext]_vars

\* ------------------------------------------------- collision resolver alone
\* Frames applied to the last ball of a turn in flight near the bricks of
\* level 1: where it lands after the next frame (SideTargets) and its
\* velocity (any aim of speed BALL_SPEED_PER_SEC, here 3-4-5 directions and
\* straight up) are drawn from sets that put the ball on every side of a brick
\* and on equal horizontal and vertical depths.
SideTargetsX == {311, 313, 317, 480}
SideTargetsY == {332, 382, 384, 386}
SideVelocities ==
    { << 0 - 720, 0 - 960 >>, << 720, 0 - 960 >>, << 0, 0 - 1200 >>,
      << 720, 960 >>, << 0 - 960, 0 - 720 >>, << 0 - 960, 720 >> }

SideInit ==
    /\ levelsData \in LevelFiles /\ Len(levelsData) = 2
    /\ frameInterval = 100
    /\ lastFrameSet = TRUE
    /\ \E tx \in SideTargetsX, ty \in SideTargetsY, v \in SideVelocities :
          balls = [ i \in 1..InitialBallCount |->
                      IF i < InitialBallCount
                      THEN [ id |-> i - 1, x |-> INITIAL_LAUNCH_X, y |-> LAUNCH_Y,
                             dx |-> v[1], dy |-> v[2], launched |-> FALSE ]
                      ELSE [ id |-> i - 1,
                             x |-> tx - Move(v[1], frameInterval),
                             y |-> ty - Move(v[2], frameInterval),
                             dx |-> v[1], dy |-> v[2], launched |-> TRUE ] ]
    /\ bricks = BuildBricks(levelsData[1], 1, 1, 0)
    /\ score = 0
    /\ ballCount = InitialBallCount
    /\ gameState = [ level |-> 1, gameStatus |-> "playing" ]
    /\ isLaunching = TRUE
    /\ launchQueue = << >>
    /\ lastLaunchTime = 0 - LAUNCH_DELAY
    /\ lastBallX = INITIAL_LAUNCH_X
    /\ touchActive = FALSE
    /\ launchAngle = << 3, 0 - 4 >>
    /\ lastTurnHadLaunch = TRUE
    /\ gameLoop = TRUE
    /\ effectPending = FALSE
    /\ released = TRUE
    /\ cancelled = "none"
    /\ tickHits = ZeroHits(bricks)
    /\ releases = 1
    /\ sinceLaunch = LAUNCH_DELAY
    /\ turnClock = ClockCap
    /\ GenOff

SideNext == Tick \/ turnEndEffect

SpecSide == SideInit /\ [][SideNext]_vars

Next ==
    \/ Tick
    \/ Aim
    \/ onGestureEnd
    \/ recallBalls
    \/ turnEndEffect
    \/ startNextLevel
    \/ restartGame

Spec == Init /\ [][Next]_vars

\* The game left alone during a turn: the player acts (aims, releases,
\* recalls, answers a modal) only while no turn is active, so that nothing
\* but animation frames and the effect follows an accepted release.  The
\* requestAnimationFrame loop reschedules itself in every frame and React
\* runs the effect after every render that changed its dependencies.
PlayerWaits ==
    /\ ~isLaunching /\ launchQueue = << >> /\ allParked(balls)
    /\ \/ Aim
       \/ onGestureEnd
       \/ recallBalls
       \/ startNextLevel
       \/ restartGame

LiveNext ==
    \/ Tick
    \/ turnEndEffect
    \/ PlayerWaits

\* An animation frame during a turn, told by what it does to the state: of
\* the steps of LiveNext only a frame raises effectPending while a turn is
\* active (the player waits, and the effect never raises it from FALSE).
frameInTurn ==
    /\ isLaunching \/ ~allParked(balls)
    /\ gameLoop /\ ~effectPending
    /\ effectPending' = TRUE

SpecLive == Init /\ [][LiveNext]_vars /\ WF_effectPending(frameInTurn) /\ WF_vars(turnEndEffect)

\* ------------------------------------------------- the game once it is lost
\* The state in which level 2 is lost: level 1 was won by destroying its two
\* bricks (10 + 20 points, one bonus ball), the first turn of level 2
\* destroyed nothing, and the descent took the brick on the loss line across
\* it.  The player may have a touch down since before the turn ended.  The
\* history starts here: releases counts the releases accepted from now on.
LostInit ==
    /\ levelsData \in LevelFiles /\ Len(levelsData) = 2
    /\ frameInterval \in FrameIntervals
    /\ lastFrameSet \in BOOLEAN
    /\ score = 30
    /\ ballCount = InitialBallCount + 1
    /\ balls = initialBalls(ballCount)
    /\ bricks = descend(BuildBricks(levelsData[2], 1, 1, 0))
    /\ gameState = [ level |-> 2, gameStatus |-> "lost" ]
    /\ isLaunching = FALSE
    /\ lastTurnHadLaunch = FALSE
    /\ launchQueue = << >>
    /\ lastBallX = INITIAL_LAUNCH_X
    /\ lastLaunchTime = 0 - LAUNCH_DELAY
    /\ touchActive \in BOOLEAN
    /\ launchAngle \in AimAngles
    /\ gameLoop = TRUE
    /\ effectPending = FALSE
    /\ released = FALSE
    /\ cancelled = "done"
    /\ tickHits = ZeroHits(bricks)
    /\ releases = 0
    /\ sinceLaunch = 0 - 1
    /\ turnClock = 0 - 1
    /\ GenOff

SpecLost == LostInit /\ [][Next]_vars

TypeOK ==
    /\ gameState.gameStatus \in {"playing", "won", "lost"}
    /\ score \in Nat
    /\ ballCount \in Nat
    /\ cancelled \in {"none", "noop", "pending", "done"}

\* ------------------------------------------------------------ vocabulary
Status == gameState.gameStatus
BrickYs == [ j \in 1..Len(bricks) |-> bricks[j].y ]
TurnActive == isLaunching \/ ~allParked(balls)
Idle == ~isLaunching /\ launchQueue = << >> /\ allParked(balls)
\* The step is turn-end processing: the effect runs with its guard satisfied.
TurnEndProcessing == turnEndEffect /\ turnEndDue
\* The step is not a (re-)initialization of the level.
SameLevel == ~startNextLevel /\ ~restartGame

\* ================================================================ claims

\* C1 (as stated): after recall() cancels an active turn in which a release
\* was accepted, no brick descends and the status is not re-evaluated until a
\* new release is accepted.
C1_RecallSkipsTurnEnd ==
    [][ (cancelled \in {"pending", "done"} /\ cancelled' \in {"pending", "done"})
            => (BrickYs' = BrickYs /\ gameState' = gameState) ]_vars

\* C1 (amended): recall() of an active turn returns the simulation to Idle and
\* itself moves no brick and changes no status; the cancelled turn then gets
\* turn-end processing in a single effect step, and before and after that
\* step no brick moves and the status does not change until a new release.
C1_RecallThenSingleTurnEnd ==
    [][ /\ (recallBalls => Idle' /\ BrickYs' = BrickYs /\ gameState' = gameState)
        /\ (cancelled = "pending" /\ cancelled' = "pending"
                => BrickYs' = BrickYs /\ gameState' = gameState)
        /\ (cancelled = "pending" /\ cancelled' = "done" => TurnEndProcessing)
        /\ (cancelled = "done" /\ cancelled' = "done"
                => BrickYs' = BrickYs /\ gameState' = gameState) ]_vars

\* A recalled turn whose turn-end processing has descended the bricks, with
\* the effect settled afterwards.
C1_Witness ==
    /\ cancelled = "done" /\ ~effectPending /\ Status = "playing"
    /\ Len(bricks) > 0 /\ bricks[1].y > HEADER_HEIGHT + 4 * (brickHeight + BRICK_MARGIN)

\* C2: after recall() in a state where no release has been accepted since the
\* level started or since the last turn-end processing, no brick's vertical
\* position changes and the status stays as it is, in the recall step and in
\* every following step until a release is accepted.
C2_NoLaunchNoDescent ==
    [][ /\ (recallBalls /\ ~released => BrickYs' = BrickYs /\ gameState' = gameState)
        /\ (cancelled = "noop" /\ cancelled' = "noop"
                => BrickYs' = BrickYs /\ gameState' = gameState) ]_vars

\* The effect has run after a recall that had nothing to cancel, bricks still
\* visible.
C2_Witness ==
    /\ cancelled = "noop" /\ ~effectPending /\ Status = "playing"
    /\ visibleCount(bricks) > 0 /\ ~released

\* C3: a frame ends the turn (clears isLaunching, discards the queue) only
\* when the launch queue is empty and every ball is parked, so every queued
\* ball has been launched before the turn ends.
C3_TurnEndsWithEmptyQueue ==
    [][ (Tick /\ isLaunching /\ ~isLaunching')
            => (launchQueue = << >> /\ allParked(balls')) ]_vars

\* C4: within a level, a step changes some brick's vertical position only as
\* turn-end processing: before and after it all balls are parked, the launch
\* queue is empty and no turn is active, and a release was accepted in the
\* turn that just finished.
C4_DescentOnlyAtTurnEnd ==
    [][ (SameLevel /\ BrickYs' # BrickYs)
            => (TurnEndProcessing /\ released /\ Idle /\ Idle') ]_vars

\* Turn-end processing has just descended the bricks of a level still in play.
C4_Witness ==
    /\ ~released /\ Status = "playing" /\ visibleCount(bricks) > 0
    /\ bricks[1].y = HEADER_HEIGHT + 4 * (brickHeight + BRICK_MARGIN) + BRICK_DROP_AMOUNT

\* C5: a release attempted while a turn is active (isLaunching set or a ball
\* in flight) is ignored: balls, launch queue (with its shared velocity),
\* lastTurnHadLaunch, lastLaunchTime and isLaunching keep their values; and a
\* non-empty launch queue is never replaced, only shortened or discarded.
C5_ReleaseIgnoredWhileActive ==
    [][ /\ (TurnActive /\ onGestureEnd)
            => UNCHANGED << balls, launchQueue, lastTurnHadLaunch, lastLaunchTime,
                            isLaunching, released, releases >>
        /\ launchQueue # << >>
            => launchQueue' \in {launchQueue, Tail(launchQueue), << >>} ]_vars

\* A release attempt was ignored during a launch sequence: the touch that
\* re-aimed after the accepted release has been consumed, the queue still
\* carries the velocity of the accepted release, and a ball is in flight.
C5_Witness ==
    /\ isLaunching /\ launchQueue # << >> /\ ~allParked(balls)
    /\ ~touchActive
    /\ launchQueue[1].dx # (launchAngle[1] * BALL_SPEED_PER_SEC) \div 5

\* C6: within a level no step increases a brick's hit count or takes it below
\* 0, and every step lowers it by exactly the number of collisions resolved
\* against the brick in that step (one per ball that hits it in the frame and
\* stays in flight, none outside frames).
C6_HitMonotonic ==
    [][ SameLevel =>
          \A j \in 1..Len(bricks) :
              /\ bricks'[j].hits <= bricks[j].hits
              /\ bricks'[j].hits >= 0
              /\ bricks[j].hits - bricks'[j].hits = tickHits'[j] ]_vars

\* Two balls have hit the same brick in one frame.
C6_Witness == \E j \in 1..Len(bricks) : tickHits[j] >= 2

\* C7: a brick is visible iff its hit count is positive; within a level an
\* invisible brick stays invisible, keeps its hit count and has no collision
\* resolved against it.
C7_VisibleIffHits ==
    /\ [](\A j \in 1..Len(bricks) : bricks[j].visible <=> bricks[j].hits > 0)
    /\ [][ SameLevel =>
             \A j \in 1..Len(bricks) :
                 ~bricks[j].visible =>
                     /\ ~bricks'[j].visible
                     /\ bricks'[j].hits = bricks[j].hits
                     /\ tickHits'[j] = 0 ]_vars

\* A ball in flight overlaps a destroyed brick after a frame.
C7_Witness ==
    \E i \in 1..Len(balls), j \in 1..Len(bricks) :
          /\ balls[i].launched /\ ~bricks[j].visible /\ bricks[j].hits = 0
          /\ Overlaps(balls[i].x, balls[i].y, bricks[j])

\* C8: the status goes from playing to won only in turn-end processing of a
\* turn with an accepted release, with at least one brick in the level and
\* none visible, every ball parked and nothing queued.
C8_WonOnlyAtTurnEnd ==
    [][ (Status = "playing" /\ Status' = "won")
            => /\ TurnEndProcessing /\ released
               /\ Len(bricks) >= 1 /\ visibleCount(bricks) = 0
               /\ Idle ]_vars

\* Turn-end processing has just declared the level won.
C8_Witness ==
    /\ Status = "won" /\ ~released /\ Idle
    /\ Len(bricks) >= 1 /\ visibleCount(bricks) = 0 /\ releases >= 1

\* C9: turn-end processing of a non-empty level without visible bricks sets
\* the status to won and leaves every brick where it was; and while such a
\* level is cleared no step moves a brick.
C9_WinWithoutDescent ==
    [][ /\ (TurnEndProcessing /\ Len(bricks) > 0 /\ visibleCount(bricks) = 0)
            => (Status' = "won" /\ bricks' = bricks)
        /\ (SameLevel /\ Len(bricks) > 0 /\ visibleCount(bricks) = 0)
            => BrickYs' = BrickYs ]_vars

\* Level 1 of the two-level file won with its bricks still in their row.
C9_Witness ==
    /\ Status = "won" /\ gameState.level = 1
    /\ Len(bricks) = 2 /\ visibleCount(bricks) = 0
    /\ \A j \in 1..Len(bricks) :
          bricks[j].y = HEADER_HEIGHT + 4 * (brickHeight + BRICK_MARGIN)

\* C10: the status becomes lost only from playing, in turn-end processing, in
\* the step that moves every brick down by BRICK_DROP_AMOUNT, and only if
\* after that move a visible brick lies beyond LOSS_LINE.
C10_LostOnlyAfterDescent ==
    [][ (Status # "lost" /\ Status' = "lost")
            => /\ Status = "playing" /\ TurnEndProcessing
               /\ Len(bricks') = Len(bricks)
               /\ \A j \in 1..Len(bricks) : bricks'[j].y = bricks[j].y + BRICK_DROP_AMOUNT
               /\ \E j \in 1..Len(bricks) : bricks'[j].visible /\ bricks'[j].y > LOSS_LINE ]_vars

\* The game has just been lost with a visible brick beyond the loss line.
C10_Witness ==
    /\ Status = "lost" /\ ~released
    /\ \E j \in 1..Len(bricks) : bricks[j].visible /\ bricks[j].y > LOSS_LINE

\* C11: turn-end processing of a level in which a visible brick sits exactly
\* on the loss line moves every brick down by BRICK_DROP_AMOUNT and sets the
\* status to lost, whether or not the turn destroyed a brick.
C11_LossFromLossLine ==
    [][ (TurnEndProcessing
            /\ \E j \in 1..Len(bricks) : bricks[j].visible /\ bricks[j].y = LOSS_LINE)
            => /\ Status' = "lost"
               /\ BrickYs' = [ j \in 1..Len(bricks) |-> bricks[j].y + BRICK_DROP_AMOUNT ] ]_vars

\* Level 2 lost after a turn that destroyed nothing: all three bricks keep
\* their hit counts and the brick that sat on the loss line is one drop below it.
C11_Witness ==
    /\ Status = "lost" /\ gameState.level = 2 /\ releases >= 1
    /\ Len(bricks) = 3 /\ visibleCount(bricks) = 3
    /\ bricks[1].hits = 1 /\ bricks[2].hits = 3 /\ bricks[3].hits = 1
    /\ bricks[3].y = LOSS_LINE + BRICK_DROP_AMOUNT

\* C12: a frame launches at most one queued ball however long it comes after
\* the previous frame; two consecutive launches of a turn are at least
\* LAUNCH_DELAY apart in frame timestamps; and the launch that follows n
\* earlier launches of the turn comes no earlier than n * LAUNCH_DELAY after
\* the first (the 10th no earlier than 1350 ms).
C12_LaunchCadence ==
    [][ Tick =>
          /\ Cardinality({ i \in 1..Len(balls) : balls'[i].launched /\ ~balls[i].launched }) <= 1
          /\ \/ launchQueue' \in {launchQueue, << >>}
             \/ launchQueue # << >> /\ launchQueue' = Tail(launchQueue)
          /\ (sinceLaunch' = 0 /\ sinceLaunch >= 0)
                => sinceLaunch + frameInterval >= LAUNCH_DELAY
          /\ sinceLaunch' = 0
                => turnClock' >= Min2((Len(balls) - Len(launchQueue)) * LAUNCH_DELAY, ClockCap) ]_vars

\* The frame that launched the last of 10 queued balls, on a driver whose
\* frames are two launch delays apart.
C12_Witness ==
    /\ frameInterval = 2 * LAUNCH_DELAY /\ Len(balls) = 10
    /\ isLaunching /\ launchQueue = << >>
    /\ sinceLaunch = 0 /\ turnClock = ClockCap

\* C13: restartGame() resets the whole game: afterwards the level is 1, the
\* status playing, the score 0, the ball count the initial 10, and the fleet
\* holds exactly that many parked balls.
C13_RestartResetsAll ==
    [][ restartGame =>
          /\ gameState' = [ level |-> 1, gameStatus |-> "playing" ]
          /\ score' = 0
          /\ ballCount' = InitialBallCount
          /\ Len(balls') = InitialBallCount /\ allParked(balls') ]_vars

\* The fleet holds exactly n parked balls at the initial launch point.
FreshFleet(bs, n) ==
    /\ Len(bs) = n
    /\ \A i \in 1..Len(bs) :
          /\ bs[i].x = INITIAL_LAUNCH_X /\ bs[i].y = LAUNCH_Y
          /\ bs[i].dx = 0 /\ bs[i].dy = 0 /\ ~bs[i].launched

\* C14 (as stated): startNextLevel() increments the level index by one, keeps
\* score and ball count, and resets the fleet to exactly ball-count parked
\* balls at the initial launch point with an empty launch queue, no active
\* turn and lastTurnHadLaunch cleared.
C14_NextLevelResetsFleet ==
    [][ startNextLevel =>
          /\ gameState'.level = gameState.level + 1
          /\ score' = score /\ ballCount' = ballCount
          /\ FreshFleet(balls', ballCount)
          /\ launchQueue' = << >> /\ ~isLaunching' /\ ~lastTurnHadLaunch' ]_vars

\* C14 (amended): startNextLevel() increments the level index by one, keeps
\* score and ball count, empties the launch queue and clears isLaunching and
\* lastTurnHadLaunch; when the next level has a layout it resets the fleet to
\* exactly ball-count parked balls at the initial launch point, and when it
\* has none it leaves the fleet as it was.
C14_NextLevelResetsFleetIfLayout ==
    [][ startNextLevel =>
          /\ gameState'.level = gameState.level + 1
          /\ score' = score /\ ballCount' = ballCount
          /\ launchQueue' = << >> /\ ~isLaunching' /\ ~lastTurnHadLaunch'
          /\ IF HasLevel(gameState.level + 1)
             THEN FreshFleet(balls', ballCount) /\ Status' = "playing"
             ELSE balls' = balls ]_vars

\* Level 2 just started after level 1 was cleared with its bonus brick: 11
\* fresh balls, the score of level 1 kept.
C14_Witness ==
    /\ gameState = [ level |-> 2, gameStatus |-> "playing" ] /\ ~lastFrameSet
    /\ score = 30 /\ ballCount = InitialBallCount + 1
    /\ FreshFleet(balls, ballCount) /\ Idle /\ ~lastTurnHadLaunch

\* C15: requesting a level index without layout does not fail and creates
\* nothing: on the initial load of a file without levels the status is won
\* for index 1 with no brick and no ball, and startNextLevel() past the last
\* level sets the status to won for the requested index and leaves bricks and
\* balls as they were.
C15_MissingLevelIsWon ==
    /\ [](levelsData = << >>
            => Status = "won" /\ bricks = << >> /\ balls = << >>)
    /\ [][ (startNextLevel /\ ~HasLevel(gameState.level + 1))
             => /\ gameState' = [ level |-> gameState.level + 1, gameStatus |-> "won" ]
                /\ bricks' = bricks /\ balls' = balls ]_vars

\* startNextLevel() has requested level 3 of the two-level file: the status
\* is won for index 3 and the bricks and balls are those level 2 ended with.
C15_Witness ==
    /\ Len(levelsData) = 2 /\ gameState = [ level |-> 3, gameStatus |-> "won" ]
    /\ Len(bricks) = 3 /\ visibleCount(bricks) = 0 /\ Len(balls) = 11

\* C16: after every frame, every launched ball's centre x lies in
\* [BALL_RADIUS, deviceWidth - BALL_RADIUS] and its y is above the launch line.
C16_BallsStayInField ==
    [][ Tick =>
          \A i \in 1..Len(balls') :
              balls'[i].launched =>
                  /\ balls'[i].x >= BALL_RADIUS
                  /\ balls'[i].x <= deviceWidth - BALL_RADIUS
                  /\ balls'[i].y < LAUNCH_Y ]_vars

\* C17: every accepted release launches upward: the velocity shared by the
\* queued balls has a negative vertical component (y grows downward).
C17_ReleaseAimsUpward ==
    [][ (onGestureEnd /\ releases' = releases + 1)
            => \A k \in 1..Len(launchQueue') : launchQueue'[k].dy < 0 ]_vars

\* Every ball is parked at the anchor on the launch line with zero velocity.
ParkedAtAnchor ==
    \A i \in 1..Len(balls) :
        /\ balls[i].x = lastBallX /\ balls[i].y = LAUNCH_Y
        /\ balls[i].dx = 0 /\ balls[i].dy = 0 /\ ~balls[i].launched

\* C18: recall() is enabled in every state and keeps the anchor; right after
\* it every ball is parked at (anchor, LAUNCH_Y) with zero velocity, the queue
\* is empty and no turn is active; and this stays so, with no ball launched by
\* any later frame, until a release is accepted or the level is initialized.
C18_RecallLeavesIdle ==
    /\ [](ENABLED recallBalls)
    /\ [][ recallBalls => (Idle' /\ ParkedAtAnchor' /\ lastBallX' = lastBallX) ]_vars
    /\ [](cancelled # "none" => (Idle /\ ParkedAtAnchor))

\* A turn was recalled after a returned ball had moved the anchor; turn-end
\* processing and the effect have run since, and frames are running.
C18_Witness ==
    /\ cancelled = "done" /\ ~effectPending /\ gameLoop
    /\ lastBallX # INITIAL_LAUNCH_X /\ Len(balls) > 0
    /\ Idle /\ ParkedAtAnchor

\* C19: recall() in Idle changes neither level, status, score, ball count,
\* bricks nor the anchor and stays in Idle; and a second recall() changes
\* nothing at all: applied to a state as recall() leaves it (Idle, every ball
\* parked at the anchor with zero velocity) it keeps every variable of the
\* program.
C19_RecallIdempotent ==
    [][ /\ (recallBalls /\ Idle)
            => /\ Idle' /\ ParkedAtAnchor'
               /\ UNCHANGED << gameState, score, ballCount, bricks, lastBallX >>
        /\ (recallBalls /\ Idle /\ ParkedAtAnchor)
            => UNCHANGED << balls, bricks, score, ballCount, gameState, isLaunching,
                            launchQueue, lastLaunchTime, lastBallX, touchActive,
                            launchAngle, lastTurnHadLaunch, gameLoop, lastFrameSet >> ]_vars

\* recall() has acted in Idle after a finished turn that scored and moved
\* the anchor.
C19_Witness ==
    /\ cancelled = "noop" /\ releases >= 1 /\ ~released /\ score > 0
    /\ lastBallX # INITIAL_LAUNCH_X /\ Idle /\ ParkedAtAnchor

\* The bonus-flagged bricks destroyed by the step.
BonusDestroyed ==
    { j \in 1..Len(bricks) : bricks[j].givesBall /\ bricks[j].visible /\ ~bricks'[j].visible }

\* C20: a frame raises the ball count by one and adds one parked ball to the
\* fleet for every bonus-flagged brick it destroys, and changes neither for
\* other bricks, so that while a level is played the fleet holds exactly
\* ball-count balls.
C20_BonusGrantsBall ==
    [][ Tick =>
          /\ ballCount' = ballCount + Cardinality(BonusDestroyed)
          /\ Len(balls') = Len(balls) + Cardinality(BonusDestroyed)
          /\ (Status' = "playing" => Len(balls') = ballCount') ]_vars

\* cumProb after the first k entries of the table.
RECURSIVE cumulative(_, _)
cumulative(types, k) ==
    IF k = 0 THEN 0 ELSE cumulative(types, k - 1) + types[k].probability

C23_TurnEndExactlyOnce ==
    [][ /\ (onGestureEnd /\ releases' = releases + 1 /\ cancelled = "none") => ~released
        /\ TurnEndProcessing =>
              /\ released /\ ~released'
              /\ visibleCount(bricks) > 0 =>
                    BrickYs' = [ j \in 1..Len(bricks) |-> bricks[j].y + BRICK_DROP_AMOUNT ]
        /\ (SameLevel /\ ~TurnEndProcessing) => BrickYs' = BrickYs ]_vars

\* The balls a frame moves (those launched once the queue was served) and the
\* deltaTime it moves them by.
frameBalls == handleQueuedLaunches(Max2(lastLaunchTime - frameInterval, 0 - LAUNCH_DELAY)).balls
frameDelta == IF lastFrameSet THEN frameInterval ELSE 0

\* The post-move position of a ball, after the wall and top reflections.
postMove(ball, deltaTime) ==
    LET x0 == ball.x + Move(ball.dx, deltaTime)
        y0 == ball.y + Move(ball.dy, deltaTime)
    IN  [ x |-> IF x0 - BALL_RADIUS <= 0 \/ x0 + BALL_RADIUS >= deviceWidth
                THEN ball.x + Move(0 - ball.dx, deltaTime) ELSE x0,
          y |-> IF y0 - BALL_RADIUS <= HEADER_HEIGHT
                THEN ball.y + Move(0 - ball.dy, deltaTime) ELSE y0 ]

\* The bricks of brs that the post-move box of the flying ball overlaps.
overlapped(ball, deltaTime, brs) ==
    { j \in 1..Len(brs) :
        /\ postMove(ball, deltaTime).y < LAUNCH_Y
        /\ Overlaps(postMove(ball, deltaTime).x, postMove(ball, deltaTime).y, brs[j]) }

RECURSIVE SumSeq(_)
SumSeq(s) == IF s = << >> THEN 0 ELSE Head(s) + SumSeq(Tail(s))

\* C24: a frame resolves at most one brick per ball: the collisions resolved
\* in a frame are no more than the balls in flight; a brick is hit only by a
\* ball whose post-move box overlaps it and overlaps no visible brick of lower
\* index (none that is still visible after the frame); and a ball that alone
\* overlaps bricks changes only the lowest-index visible one, by one hit (by
\* none if the reflection takes it to the launch line, where it is returned).
C24_FirstOverlapOnly ==
    [][ Tick =>
          LET flying == { i \in 1..Len(frameBalls) : frameBalls[i].launched }
              touching == { i \in flying :
                              \E j \in overlapped(frameBalls[i], frameDelta, bricks) :
                                  bricks[j].visible }
          IN  /\ SumSeq(tickHits') <= Cardinality(flying)
              /\ \A j \in 1..Len(bricks) :
                    tickHits'[j] > 0 =>
                        \E i \in flying :
                            /\ j \in overlapped(frameBalls[i], frameDelta, bricks)
                            /\ \A k \in overlapped(frameBalls[i], frameDelta, bricks) :
                                  k < j => ~bricks'[k].visible
              /\ \A i \in touching :
                    touching = {i} =>
                        LET O == { j \in overlapped(frameBalls[i], frameDelta, bricks) :
                                       bricks[j].visible }
                            first == CHOOSE j \in O : \A k \in O : j <= k
                        IN  IF balls'[i].launched
                            THEN /\ tickHits' = [ j \in 1..Len(bricks) |->
                                                    IF j = first THEN 1 ELSE 0 ]
                                 /\ bricks' = [ bricks EXCEPT ![first] = hitBrick(bricks[first]) ]
                            ELSE /\ tickHits' = ZeroHits(bricks)
                                 /\ bricks' = bricks ]_vars

\* A ball has hit the first brick of level 1 in a frame in which its box
\* overlapped both bricks of the row, both visible: only the first lost a hit.
C24_Witness ==
    /\ gameState.level = 1 /\ Len(bricks) = 2
    /\ tickHits = << 1, 0 >> /\ bricks[2].visible /\ bricks[2].hits = 3
    /\ \E i \in 1..Len(balls) :
          /\ balls[i].launched
          /\ Overlaps(balls[i].x, balls[i].y, bricks[1])
          /\ Overlaps(balls[i].x, balls[i].y, bricks[2])

\* C25: a frame returns every flying ball whose post-move y reaches the
\* launch line: after the frame the ball is parked at its post-move x on the
\* launch line; a frame in which every flying ball is returned changes no
\* brick; the anchor becomes the x of the ball returned last in the frame;
\* and within a level the anchor changes in no other step.
C25_ReturnAtLaunchLine ==
    [][ /\ Tick =>
              LET flying == { i \in 1..Len(frameBalls) : frameBalls[i].launched }
                  back == { i \in flying : ~balls'[i].launched }
              IN  /\ \A i \in flying :
                        postMove(frameBalls[i], frameDelta).y >= LAUNCH_Y =>
                            /\ i \in back
                            /\ balls'[i].y = LAUNCH_Y
                            /\ balls'[i].x = postMove(frameBalls[i], frameDelta).x
                  /\ (flying # {} /\ back = flying) =>
                        (bricks' = bricks /\ tickHits' = ZeroHits(bricks))
                  /\ IF back = {} THEN lastBallX' = lastBallX
                     ELSE lastBallX' = balls'[CHOOSE i \in back : \A k \in back : k <= i].x
        /\ (SameLevel /\ ~Tick) => lastBallX' = lastBallX ]_vars

\* During a launch sequence a ball has come back away from the initial
\* launch point and the anchor is where it landed; another ball still flies.
C25_Witness ==
    /\ isLaunching /\ lastBallX # INITIAL_LAUNCH_X
    /\ \E i \in 1..Len(balls) : balls[i].launched
    /\ \E i \in 1..Len(balls) :
          /\ ~balls[i].launched /\ balls[i].dy > 0
          /\ balls[i].x = lastBallX /\ balls[i].y = LAUNCH_Y

\* The velocity of a release at the current aim: (cos, sin) * BALL_SPEED_PER_SEC.
aimVelocity ==
    << (launchAngle[1] * BALL_SPEED_PER_SEC) \div 5,
       (launchAngle[2] * BALL_SPEED_PER_SEC) \div 5 >>

\* C26: an accepted release queues every parked ball, in ascending order of
\* identity, with the one velocity of the aim at release; the queued balls
\* keep that velocity whatever is aimed afterwards; and a frame that launches
\* launches the head of the queue and nothing else, moving it from where it
\* was queued with the velocity it was queued with.
C26_QueueOrderAndVelocity ==
    /\ [](\A k \in 1..Len(launchQueue) :
             /\ launchQueue[k].dx = launchQueue[1].dx
             /\ launchQueue[k].dy = launchQueue[1].dy
             /\ k < Len(launchQueue) => launchQueue[k].id < launchQueue[k + 1].id)
    /\ [][ /\ (onGestureEnd /\ releases' = releases + 1) =>
                 /\ Len(launchQueue') = Len(balls)
                 /\ \A k \in 1..Len(balls) :
                       launchQueue'[k] = [ balls[k] EXCEPT !.dx = aimVelocity[1],
                                                           !.dy = aimVelocity[2] ]
           /\ Aim => UNCHANGED << launchQueue, balls >>
           /\ Tick =>
                 LET launchedNow == isLaunching' /\ Len(launchQueue') = Len(launchQueue) - 1
                     head == Head(launchQueue)
                     p == postMove(head, frameDelta)
                 IN  /\ launchedNow =>
                           /\ launchQueue' = Tail(launchQueue)
                           /\ \E i \in 1..Len(balls) :
                                 /\ balls[i].id = head.id /\ ~balls[i].launched
                                 /\ Abs(balls'[i].dx) = Abs(head.dx)
                                 /\ Abs(balls'[i].dy) = Abs(head.dy)
                                 /\ (\A j \in overlapped(head, frameDelta, bricks) :
                                        ~bricks[j].visible) =>
                                       /\ balls'[i].x = p.x
                                       /\ balls'[i].y = Min2(p.y, LAUNCH_Y)
                                       /\ balls'[i].launched = (p.y < LAUNCH_Y)
                     /\ \A i \in 1..Len(balls) :
                           (balls'[i].launched /\ ~balls[i].launched) =>
                               (launchedNow /\ balls[i].id = head.id) ]_vars

\* A ball queued at one aim has been launched after the aim was changed: it
\* flies with the velocity of the release, which the balls still queued share.
C26_Witness ==
    /\ isLaunching /\ launchQueue # << >> /\ Len(launchQueue) < Len(balls) - 1
    /\ launchQueue[1].dx # aimVelocity[1]
    /\ \E i \in 1..Len(balls) :
          /\ balls[i].launched /\ balls[i].id = launchQueue[1].id - 1
          /\ balls[i].dx = launchQueue[1].dx /\ balls[i].dy = launchQueue[1].dy

\* The point values of the bricks the step destroys.
destroyedPoints ==
    SumSeq([ j \in 1..Len(bricks) |->
               IF bricks[j].visible /\ ~bricks'[j].visible THEN bricks[j].points ELSE 0 ])

\* C27: the score is the sum of the point values of the bricks destroyed so
\* far in the game: a game starts with score 0, a frame adds the point value
\* of every brick it destroys and nothing for other hits, and no other step
\* of the game changes the score.
C27_ScoreIsDestroyedPoints ==
    /\ score = 0
    /\ [][ /\ Tick => score' = score + destroyedPoints
           /\ (~Tick /\ ~restartGame) => score' = score
           /\ restartGame => score' = 0 ]_vars

\* C28: a step that descends the bricks of a level adds BRICK_DROP_AMOUNT to
\* the y of every brick of the collection, visible or not, and changes nothing
\* else about any brick; turn-end processing of a level with a visible brick
\* is such a step.
C28_DescentMovesEveryBrick ==
    [][ /\ (SameLevel /\ BrickYs' # BrickYs) =>
              /\ Len(bricks') = Len(bricks)
              /\ \A j \in 1..Len(bricks) :
                    bricks'[j] = [ bricks[j] EXCEPT !.y = @ + BRICK_DROP_AMOUNT ]
        /\ (TurnEndProcessing /\ visibleCount(bricks) > 0) =>
              \A j \in 1..Len(bricks) : bricks'[j].y = bricks[j].y + BRICK_DROP_AMOUNT ]_vars

\* Level 1 after one descent with its first brick destroyed: the destroyed
\* brick has moved down with the visible one.
C28_Witness ==
    /\ gameState.level = 1 /\ Len(bricks) = 2
    /\ ~bricks[1].visible /\ bricks[1].hits = 0 /\ bricks[2].visible
    /\ \A j \in 1..2 :
          bricks[j].y = HEADER_HEIGHT + 4 * (brickHeight + BRICK_MARGIN) + BRICK_DROP_AMOUNT

\* The velocity of a ball after the wall and top reflections of its move.
postVelocity(ball, deltaTime) ==
    LET x0 == ball.x + Move(ball.dx, deltaTime)
        y0 == ball.y + Move(ball.dy, deltaTime)
    IN  [ dx |-> IF x0 - BALL_RADIUS <= 0 \/ x0 + BALL_RADIUS >= deviceWidth
                 THEN 0 - ball.dx ELSE ball.dx,
          dy |-> IF y0 - BALL_RADIUS <= HEADER_HEIGHT THEN 0 - ball.dy ELSE ball.dy ]

\* The least of the four penetration depths of a ball at (newX, newY) in a
\* brick is a horizontal one.
leastDepthHorizontal(newX, newY, brick) ==
    \E h \in { Abs((newX + BALL_RADIUS) - brick.x),
               Abs((newX - BALL_RADIUS) - (brick.x + brick.width)) } :
        \A d \in { Abs((newX + BALL_RADIUS) - brick.x),
                   Abs((newX - BALL_RADIUS) - (brick.x + brick.width)),
                   Abs((newY + BALL_RADIUS) - brick.y),
                   Abs((newY - BALL_RADIUS) - (brick.y + brick.height)) } : h <= d

\* C29: when a ball collides with a brick (the first visible brick its
\* post-move box overlaps), its horizontal velocity is negated and its x
\* recomputed from the pre-move x iff the least of the four penetration
\* depths is the from-left or from-right depth, ties with a vertical depth
\* included; otherwise its vertical velocity is negated and its y recomputed
\* from the pre-move y; the other component and coordinate stay as moved.
C29_SideOfCollision ==
    [][ Tick =>
          LET flying == { i \in 1..Len(frameBalls) : frameBalls[i].launched }
              touching == { i \in flying :
                              \E j \in overlapped(frameBalls[i], frameDelta, bricks) :
                                  bricks[j].visible }
          IN  \A i \in touching :
                  touching = {i} =>
                      LET b == frameBalls[i]
                          p == postMove(b, frameDelta)
                          v == postVelocity(b, frameDelta)
                          O == { j \in overlapped(b, frameDelta, bricks) : bricks[j].visible }
                          first == CHOOSE j \in O : \A k \in O : j <= k
                      IN  IF leastDepthHorizontal(p.x, p.y, bricks[first])
                          THEN /\ balls'[i].dx = 0 - v.dx /\ balls'[i].dy = v.dy
                               /\ balls'[i].x = b.x + Move(0 - v.dx, frameDelta)
                               /\ balls'[i].y = p.y
                          ELSE /\ balls'[i].dy = 0 - v.dy /\ balls'[i].dx = v.dx
                               /\ balls'[i].x = p.x
                               /\ balls'[i].y = Min2(b.y + Move(0 - v.dy, frameDelta), LAUNCH_Y) ]_vars

\* A frame has resolved a collision with the first brick as a horizontal hit
\* although a vertical depth was as small as the least horizontal one: the
\* ball flies on with its x taken back from the pre-move x.
C29_Witness ==
    /\ tickHits[1] = 1
    /\ \E i \in 1..Len(balls) :
          /\ balls[i].launched
          /\ LET px == balls[i].x - 2 * Move(balls[i].dx, frameInterval)
                 py == balls[i].y
                 brick == bricks[1]
                 horizontal == Min2(Abs((px + BALL_RADIUS) - brick.x),
                                    Abs((px - BALL_RADIUS) - (brick.x + brick.width)))
                 vertical == Min2(Abs((py + BALL_RADIUS) - brick.y),
                                  Abs((py - BALL_RADIUS) - (brick.y + brick.height)))
             IN  /\ px + BALL_RADIUS > brick.x
                 /\ px - BALL_RADIUS < brick.x + brick.width
                 /\ py + BALL_RADIUS > brick.y
                 /\ py - BALL_RADIUS < brick.y + brick.height
                 /\ horizontal = vertical

\* The identities of a collection, in its order.
idsOf(collection) == [ i \in 1..Len(collection) |-> collection[i].id ]

\* C30: a simulation tick neither creates nor removes a ball or a brick (the
\* identities of both collections are the same after it), and while the level
\* is not re-initialized every step keeps the brick identities and leaves a
\* destroyed brick in the collection, invisible.
C30_TicksKeepCollections ==
    [][ /\ Tick =>
              /\ Len(balls') = Len(balls)
              /\ Len(bricks') = Len(bricks)
              /\ idsOf(balls') = idsOf(balls)
              /\ idsOf(bricks') = idsOf(bricks)
        /\ SameLevel =>
              /\ Len(bricks') = Len(bricks)
              /\ idsOf(bricks') = idsOf(bricks)
              /\ \A j \in 1..Len(bricks) :
                    ~bricks[j].visible => ~bricks'[j].visible ]_vars

\* In the turn after a brick of level 1 was destroyed and the bricks have
\* descended, balls are in flight and the destroyed brick is still the first
\* of the two bricks.
C30_Witness ==
    /\ gameState.level = 1 /\ Len(bricks) = 2
    /\ idsOf(bricks) = << 0, 1 >>
    /\ ~bricks[1].visible /\ bricks[1].hits <= 0
    /\ bricks[1].y > HEADER_HEIGHT + 4 * (brickHeight + BRICK_MARGIN)
    /\ releases = 2
    /\ \E i \in 1..Len(balls) : balls[i].launched /\ balls[i].y < LAUNCH_Y
    /\ idsOf(balls) = [ i \in 1..InitialBallCount |-> i - 1 ]

BrickHits == [ j \in 1..Len(bricks) |-> bricks[j].hits ]
BrickXs == [ j \in 1..Len(bricks) |-> bricks[j].x ]

\* C32: once the status is won or lost, no step other than startNextLevel or
\* restartGame changes the status, the score, the ball count, a brick's hit
\* count or a brick's position.
C32_FrozenWhenDecided ==
    [][ (Status # "playing" /\ SameLevel) =>
            /\ Status' = Status
            /\ score' = score
            /\ ballCount' = ballCount
            /\ BrickHits' = BrickHits
            /\ BrickXs' = BrickXs
            /\ BrickYs' = BrickYs ]_vars

\* C33: in a level without bricks no step takes the status away from playing
\* or changes the (empty) brick collection; in particular turn-end
\* processing declares neither a win nor a loss and applies no descent.
C33_EmptyLevelStaysPlaying ==
    [][ (Len(bricks) = 0 /\ Status = "playing") =>
            /\ Status' = "playing"
            /\ bricks' = bricks
            /\ TurnEndProcessing => gameState' = gameState ]_vars

\* A turn of a level without bricks has completed and was processed: the
\* balls are back, away from the initial launch point, and the game goes on.
C33_Witness ==
    /\ HasLevel(gameState.level) /\ Len(bricks) = 0
    /\ Status = "playing"
    /\ releases >= 1 /\ cancelled = "none"
    /\ Idle /\ ~released /\ ~lastTurnHadLaunch /\ ~effectPending
    /\ lastBallX # INITIAL_LAUNCH_X

\* C34: every ball in flight has velocity components of the magnitudes of
\* the launch velocity of the running turn, which is the velocity of the aim
\* at the accepted release: reflections off walls, top and bricks only flip
\* signs.  While balls are still queued the queue carries that velocity.
C34_SpeedComponentsKept ==
    /\ [](/\ \A i \in 1..Len(balls), k \in 1..Len(balls) :
                (balls[i].launched /\ balls[k].launched) =>
                    /\ Abs(balls[i].dx) = Abs(balls[k].dx)
                    /\ Abs(balls[i].dy) = Abs(balls[k].dy)
          /\ \A i \in 1..Len(balls), k \in 1..Len(launchQueue) :
                balls[i].launched =>
                    /\ Abs(balls[i].dx) = Abs(launchQueue[k].dx)
                    /\ Abs(balls[i].dy) = Abs(launchQueue[k].dy)
          /\ \A i \in 1..Len(balls) :
                balls[i].launched =>
                    (balls[i].dx * balls[i].dx) + (balls[i].dy * balls[i].dy)
                        = BALL_SPEED_PER_SEC * BALL_SPEED_PER_SEC)
    /\ [][ \A i \in 1..Len(balls) :
              (balls[i].launched /\ i <= Len(balls') /\ balls'[i].launched) =>
                  /\ Abs(balls'[i].dx) = Abs(balls[i].dx)
                  /\ Abs(balls'[i].dy) = Abs(balls[i].dy) ]_vars

\* A ball flies with the vertical velocity of the queued balls reversed while
\* the launch sequence still runs: it has been reflected.
C34_Witness ==
    /\ isLaunching /\ launchQueue # << >>
    /\ \E i \in 1..Len(balls) :
          /\ balls[i].launched
          /\ balls[i].dy > 0
          /\ balls[i].dy = 0 - launchQueue[1].dy

\* The ball of the pool with the identity of the queued ball q is parked.
parkedInPool(q) == \E i \in 1..Len(balls) : balls[i].id = q.id /\ ~balls[i].launched

\* C35: a non-empty launch queue implies a turn is active (a launch sequence
\* runs); the queue holds only balls that are parked in the pool, each once;
\* and within a turn a ball is launched at most once: a frame launches only
\* the head of the queue, which leaves the queue for good, so a ball that is
\* not queued is never launched.
C35_QueueWellFormed ==
    /\ [](/\ launchQueue # << >> => isLaunching
          /\ \A k \in 1..Len(launchQueue) :
                /\ ~launchQueue[k].launched
                /\ parkedInPool(launchQueue[k])
          /\ \A k \in 1..Len(launchQueue), m \in 1..Len(launchQueue) :
                launchQueue[k].id = launchQueue[m].id => k = m)
    /\ [][ \A i \in 1..Len(balls) :
              (~balls[i].launched /\ i <= Len(balls') /\ balls'[i].launched) =>
                  /\ launchQueue # << >>
                  /\ Head(launchQueue).id = balls[i].id
                  /\ launchQueue' = Tail(launchQueue) ]_vars
    /\ [][ (launchQueue' # launchQueue /\ launchQueue' # << >>
               /\ (launchQueue = << >> \/ launchQueue' # Tail(launchQueue))) =>
              (onGestureEnd /\ allParked(balls) /\ releases' = releases + 1) ]_vars

\* In the middle of a launch sequence a ball that was launched in this turn is
\* back and parked, and is not queued again, while other balls still wait in
\* the queue.
C35_Witness ==
    /\ isLaunching /\ launchQueue # << >>
    /\ \E i \in 1..Len(balls) :
          /\ ~balls[i].launched
          /\ balls[i].dy > 0
          /\ \A k \in 1..Len(launchQueue) : launchQueue[k].id # balls[i].id

C37_FirstBallNotDelayed ==
    [][ Tick =>
          /\ (isLaunching /\ launchQueue # << >> /\ Len(launchQueue) = Len(balls)) =>
                /\ launchQueue' = Tail(launchQueue)
                /\ \E i \in 1..Len(balls) :
                      /\ balls[i].id = Head(launchQueue).id
                      /\ Abs(balls'[i].dx) = Abs(Head(launchQueue).dx)
                      /\ Abs(balls'[i].dy) = Abs(Head(launchQueue).dy)
          /\ (isLaunching /\ launchQueue # << >> /\ Len(launchQueue) < Len(balls)
                /\ sinceLaunch >= 0 /\ sinceLaunch + frameInterval < LAUNCH_DELAY) =>
                launchQueue' \in { launchQueue, << >> } ]_vars

\* The first frame after a release has launched the first ball: nine balls
\* wait in the queue and the launch clocks have just started.
C37_Witness ==
    /\ isLaunching
    /\ Len(balls) = InitialBallCount
    /\ Len(launchQueue) = Len(balls) - 1
    /\ balls[1].launched
    /\ sinceLaunch = 0 /\ turnClock = 0
    /\ frameInterval < LAUNCH_DELAY

\* The frame ends the turn: it applies endTurn.
endsTurn == isLaunching /\ ~isLaunching'

\* Ball i is left alone by the step: it stays parked where it is, except
\* that a frame that ends the turn moves its x to the anchor.
leftParked(i) ==
    /\ ~balls'[i].launched
    /\ balls'[i].y = balls[i].y
    /\ balls'[i].x = IF endsTurn THEN lastBallX' ELSE balls[i].x

\* C38 (as stated): every ball that is parked when a frame begins keeps its
\* position and its launched flag through the frame, except that the frame
\* that ends the turn moves every ball's x to the anchor.
C38_TickLeavesParked ==
    [][ Tick =>
          \A i \in 1..Len(balls) : ~balls[i].launched => leftParked(i) ]_vars

\* C38 (amended): every ball that is parked when a frame begins keeps its
\* position and its launched flag through the frame, except the ball at the
\* head of the launch queue when the frame releases it, and except that the
\* frame that ends the turn moves every ball's x to the anchor.
C38_TickLeavesParkedUnlessReleased ==
    [][ Tick =>
          \A i \in 1..Len(balls) :
              ~balls[i].launched =>
                  \/ leftParked(i)
                  \/ /\ isLaunching /\ launchQueue # << >>
                     /\ Head(launchQueue).id = balls[i].id
                     /\ launchQueue' # launchQueue ]_vars

\* In the second turn, after the first turn ended at an anchor other than the
\* initial launch point, the third ball has been released while the balls
\* behind it are still parked at the anchor.
C38_Witness ==
    /\ isLaunching
    /\ Len(balls) = InitialBallCount
    /\ Len(launchQueue) = Len(balls) - 3
    /\ balls[3].launched
    /\ \A i \in 4..Len(balls) :
          ~balls[i].launched /\ balls[i].x = lastBallX /\ balls[i].y = LAUNCH_Y
    /\ releases = 2
    /\ lastBallX # INITIAL_LAUNCH_X

====
